---------------------------- MODULE Spec2Model ----------------------------
(***************************************************************************)
(* A model of the Azure blob transfer client (package main): the           *)
(* AzureBlobClient struct with its lazily initialised, cached container    *)
(* client, the credential chain built by InitCredential, the Download and  *)
(* Upload methods step by step, the progress callback bridging the SDK's   *)
(* byte counts to the progress bar, and the two callers: main (one         *)
(* Download, log.Fatal on error) and a caller that issues a sequence of    *)
(* Download / Upload calls on one client.                                  *)
(*                                                                         *)
(* The SDK and the operating system are the environment: every call into   *)
(* them either succeeds or returns an error value of its own.              *)
(*                                                                         *)
(* The model follows the revision of the client that has the credential    *)
(* chain and the progress bar; the earlier revision of Download, Upload    *)
(* and init has the same steps without them.                               *)
(***************************************************************************)
EXTENDS Integers, Sequences, FiniteSets, TLC

\* Bounds of the model.
MaxCalls     == 2   \* Download/Upload calls issued on one client
MaxSize      == 2   \* largest blob ContentLength / local file size
MaxCallbacks == 2   \* progress callbacks the SDK makes during one transfer

VARIABLES
    driver,       \* "main": func main; "lib": a caller of the exported methods
    c,            \* the AzureBlobClient struct
    handlesMade,  \* container clients the SDK has constructed so far
    pc,           \* position of the single thread of control
    call,         \* the method call being executed and its arguments
    callsDone,    \* calls issued so far
    ret,          \* error value returned by the last call that returned
    errv,         \* error value handed back by the callee that failed in this call
    trace,        \* the SDK / OS / stdout steps executed by this call, in order
    credList,     \* InitCredential's credList (the sources of the chain)
    credential,   \* init's credential: Nil or a pointer to the chained credential
    blob,         \* container-client handle the blob client was made from
    f,            \* handle returned by os.Create: "none", "open", "closed"
    disk,         \* the destination file on disk
    blobProps,    \* the response value of GetProperties
    size,         \* Download: the pointer copied from blobProps; Upload: the size
    derefs,       \* number of times *size has been dereferenced in this call
    progbar,      \* the progress bar: <<>> or <<[max, current]>>
    cbCount,      \* progress callbacks run in this call
    cbArg,        \* bytesTransferred of the latest callback: Nil or <<n>>
    out,          \* lines written to stdout by this call
    inflight      \* blocking SDK blob calls that have started and not returned

vars == <<driver, c, handlesMade, pc, call, callsDone, ret, errv, trace,
          credList, credential, blob, f, disk, blobProps, size, derefs, progbar, cbCount,
          cbArg, out, inflight>>

-----------------------------------------------------------------------------
\* Values.

\* A nil pointer; a non-nil pointer to v is <<v>>.
Nil == <<>>

\* Error values. origin: who made the value; op: the call that made it;
\* wrapped: whether the value was wrapped after it was made.
NoErr == [origin |-> "none", op |-> "none", wrapped |-> FALSE]

SdkErr(op) == [origin |-> "sdk", op |-> op, wrapped |-> FALSE]

OsErr(op) == [origin |-> "os", op |-> op, wrapped |-> FALSE]

\* errors.New("file cannot be nil")
FileNilErr == [origin |-> "program", op |-> "file cannot be nil", wrapped |-> FALSE]

\* The zero value of the GetProperties response: ContentLength is a nil pointer.
ZeroProps == [ContentLength |-> Nil]

NoCall == [n |-> 0, op |-> "none", file |-> Nil, cached |-> FALSE,
           afterInitFailure |-> FALSE]

NoOut == [progress |-> 0, final |-> 0]

NoDisk == [exists |-> FALSE, len |-> 0, written |-> 0]

\* The steps that belong to init().
InitSteps == {"NewInteractiveBrowserCredential", "NewDeviceCodeCredential",
              "NewChainedTokenCredential", "NewContainerClient"}

\* The values every call starts from (the locals of a fresh activation).
FreshLocals ==
    /\ ret' = NoErr
    /\ errv' = NoErr
    /\ trace' = <<>>
    /\ credList' = <<>>
    /\ credential' = Nil
    /\ blob' = Nil
    /\ f' = "none"
    /\ blobProps' = ZeroProps
    /\ size' = Nil
    /\ derefs' = 0
    /\ progbar' = Nil
    /\ cbCount' = 0
    /\ cbArg' = Nil
    /\ out' = NoOut
    /\ inflight' = {}

\* Return with the error wrapped on its way out (fmt.Errorf("...: %w", err)).
Return_wrapped(e) ==
    /\ ret' = IF e = NoErr THEN e ELSE [e EXCEPT !.wrapped = TRUE]
    /\ pc' = "returned"
    /\ f' = IF f = "open" THEN "closed" ELSE f

\* A return statement of Download / Upload: the error value e goes to the
\* caller, and the deferred f.Close() runs when a file was created.
Return(e) ==
    /\ ret' = e
    /\ pc' = "returned"
    /\ f' = IF f = "open" THEN "closed" ELSE f

-----------------------------------------------------------------------------
\* Constructors.

NewAzureBlobClientDefault(clientID, tenantID, containerName, storageAccount) ==
    [ClientID |-> clientID, TenantID |-> tenantID,
     ContainerName |-> containerName, StorageAccount |-> storageAccount,
     containerClient |-> Nil,
     CredentialOptions |-> [InteractiveCredential |-> FALSE]]

NewAzureBlobClientInteractive(clientID, tenantID, containerName, storageAccount) ==
    LET client == NewAzureBlobClientDefault(clientID, tenantID, containerName, storageAccount)
    IN  [client EXCEPT !.CredentialOptions.InteractiveCredential = TRUE]

Init ==
    /\ driver \in {"main", "lib"}
    /\ c \in IF driver = "main"
             THEN {NewAzureBlobClientDefault("clientID", "tenantID", "container", "account")}
             ELSE {NewAzureBlobClientDefault("clientID", "tenantID", "container", "account"),
                   NewAzureBlobClientInteractive("clientID", "tenantID", "container", "account")}
    /\ handlesMade = 0
    /\ pc = IF driver = "main" THEN "main" ELSE "idle"
    /\ call = NoCall
    /\ callsDone = 0
    /\ ret = NoErr
    /\ errv = NoErr
    /\ trace = <<>>
    /\ credList = <<>>
    /\ credential = Nil
    /\ blob = Nil
    /\ f = "none"
    /\ disk \in {NoDisk} \cup {[exists |-> TRUE, len |-> n, written |-> n] : n \in 0..MaxSize}
    /\ blobProps = ZeroProps
    /\ size = Nil
    /\ derefs = 0
    /\ progbar = Nil
    /\ cbCount = 0
    /\ cbArg = Nil
    /\ out = NoOut
    /\ inflight = {}

-----------------------------------------------------------------------------
\* The callers.

\* The call record of a new activation. n: its number; cached: the client held a container
\* client when the call was made; afterInitFailure: the previous call on this
\* client returned an error from init().
NewCall(op, file) ==
    [n |-> callsDone + 1, op |-> op, file |-> file,
     cached |-> c.containerClient # Nil,
     afterInitFailure |-> (pc = "returned" /\ ret # NoErr /\ errv.op \in InitSteps)]

\* func main: build the default client and call Download once.
main ==
    /\ driver = "main"
    /\ pc = "main"
    /\ call' = NewCall("Download", Nil)
    /\ callsDone' = callsDone + 1
    /\ pc' = "init"
    /\ FreshLocals
    /\ UNCHANGED <<driver, c, handlesMade, disk>>

\* main logging the error and calling Download again instead of ending.
logFatal_retry ==
    /\ driver = "main"
    /\ pc = "returned"
    /\ ret # NoErr
    /\ callsDone < MaxCalls
    /\ pc' = "main"
    /\ UNCHANGED <<driver, c, handlesMade, call, callsDone, ret, errv, trace,
                   credList, credential, blob, f, disk, blobProps, size, derefs,
                   progbar, cbCount, cbArg, out, inflight>>

\* main: if err != nil { log.Fatal(err) }: the process ends.
logFatal ==
    /\ driver = "main"
    /\ pc = "returned"
    /\ ret # NoErr
    /\ pc' = "fatal"
    /\ UNCHANGED <<driver, c, handlesMade, call, callsDone, ret, errv, trace,
                   credList, credential, blob, f, disk, blobProps, size, derefs,
                   progbar, cbCount, cbArg, out, inflight>>

\* main: Download returned nil and main returns.
mainExit ==
    /\ driver = "main"
    /\ pc = "returned"
    /\ ret = NoErr
    /\ pc' = "exit"
    /\ UNCHANGED <<driver, c, handlesMade, call, callsDone, ret, errv, trace,
                   credList, credential, blob, f, disk, blobProps, size, derefs,
                   progbar, cbCount, cbArg, out, inflight>>

\* A caller of the exported method Download, on a client it keeps.
CallDownload ==
    /\ driver = "lib"
    /\ pc \in {"idle", "returned"}
    /\ callsDone < MaxCalls
    /\ call' = NewCall("Download", Nil)
    /\ callsDone' = callsDone + 1
    /\ pc' = "init"
    /\ FreshLocals
    /\ UNCHANGED <<driver, c, handlesMade, disk>>

\* A caller of the exported method Upload: file is nil or an open file of
\* some size.
CallUpload ==
    /\ driver = "lib"
    /\ pc \in {"idle", "returned"}
    /\ callsDone < MaxCalls
    /\ \E file \in {Nil} \cup {<<s>> : s \in 0..MaxSize} :
           call' = NewCall("Upload", file)
    /\ callsDone' = callsDone + 1
    /\ pc' = "init"
    /\ FreshLocals
    /\ UNCHANGED <<driver, c, handlesMade, disk>>

-----------------------------------------------------------------------------
\* init(), InitCredential and InitContainerClient.

\* Where Download / Upload continue after init() returned nil.
AfterInit == IF call.op = "Download" THEN "NewBlobClient" ELSE "NewBlockBlobClient"

\* init() without the nil check: the authentication flow runs on every call.
init_always ==
    /\ pc = "init"
    /\ pc' = IF c.CredentialOptions.InteractiveCredential
             THEN "NewInteractiveBrowserCredential"
             ELSE "NewDeviceCodeCredential"
    /\ UNCHANGED <<driver, c, handlesMade, call, callsDone, ret, errv, trace,
                   credList, credential, blob, f, disk, blobProps, size, derefs,
                   progbar, cbCount, cbArg, out, inflight>>

\* init(): the authentication flow runs only when containerClient is nil;
\* InitCredential starts from an empty credList and asks for the interactive
\* credential only when the option is set.
init ==
    /\ pc = "init"
    /\ pc' = IF c.containerClient # Nil THEN AfterInit
             ELSE IF c.CredentialOptions.InteractiveCredential
                  THEN "NewInteractiveBrowserCredential"
                  ELSE "NewDeviceCodeCredential"
    /\ UNCHANGED <<driver, c, handlesMade, call, callsDone, ret, errv, trace,
                   credList, credential, blob, f, disk, blobProps, size, derefs,
                   progbar, cbCount, cbArg, out, inflight>>

NewInteractiveBrowserCredential ==
    /\ pc = "NewInteractiveBrowserCredential"
    /\ trace' = Append(trace, "NewInteractiveBrowserCredential")
    /\ \E ok \in BOOLEAN :
         IF ok
         THEN /\ credList' = Append(credList, "interactive")
              /\ pc' = "NewDeviceCodeCredential"
              /\ UNCHANGED <<ret, errv, f>>
         ELSE /\ errv' = SdkErr("NewInteractiveBrowserCredential")
              /\ Return(errv')
              /\ UNCHANGED credList
    /\ UNCHANGED <<driver, c, handlesMade, call, callsDone, credential, blob,
                   disk, blobProps, size, derefs, progbar, cbCount, cbArg, out, inflight>>

\* The device-code credential put in front of the list instead of appended.
NewDeviceCodeCredential_first ==
    /\ pc = "NewDeviceCodeCredential"
    /\ trace' = Append(trace, "NewDeviceCodeCredential")
    /\ \E ok \in BOOLEAN :
         IF ok
         THEN /\ credList' = <<"deviceCode">> \o credList
              /\ pc' = "NewChainedTokenCredential"
              /\ UNCHANGED <<ret, errv, f>>
         ELSE /\ errv' = SdkErr("NewDeviceCodeCredential")
              /\ Return(errv')
              /\ UNCHANGED credList
    /\ UNCHANGED <<driver, c, handlesMade, call, callsDone, credential, blob,
                   disk, blobProps, size, derefs, progbar, cbCount, cbArg, out,
                   inflight>>

NewDeviceCodeCredential ==
    /\ pc = "NewDeviceCodeCredential"
    /\ trace' = Append(trace, "NewDeviceCodeCredential")
    /\ \E ok \in BOOLEAN :
         IF ok
         THEN /\ credList' = Append(credList, "deviceCode")
              /\ pc' = "NewChainedTokenCredential"
              /\ UNCHANGED <<ret, errv, f>>
         ELSE /\ errv' = SdkErr("NewDeviceCodeCredential")
              /\ Return(errv')
              /\ UNCHANGED credList
    /\ UNCHANGED <<driver, c, handlesMade, call, callsDone, credential, blob,
                   disk, blobProps, size, derefs, progbar, cbCount, cbArg, out, inflight>>

\* The chain tries its sources in the order of credList.
NewChainedTokenCredential ==
    /\ pc = "NewChainedTokenCredential"
    /\ trace' = Append(trace, "NewChainedTokenCredential")
    /\ \E ok \in BOOLEAN :
         IF ok
         THEN /\ credential' = <<credList>>
              /\ pc' = "NewContainerClient"
              /\ UNCHANGED <<ret, errv, f>>
         ELSE /\ errv' = SdkErr("NewChainedTokenCredential")
              /\ Return(errv')
              /\ UNCHANGED credential
    /\ UNCHANGED <<driver, c, handlesMade, call, callsDone, credList, blob,
                   disk, blobProps, size, derefs, progbar, cbCount, cbArg, out, inflight>>

\* init() saving what InitContainerClient returned before looking at err.
InitContainerClient_saveFirst ==
    /\ pc = "NewContainerClient"
    /\ trace' = Append(trace, "NewContainerClient")
    /\ handlesMade' = handlesMade + 1
    /\ c' = [c EXCEPT !.containerClient =
                         <<[id |-> handlesMade + 1, cred |-> credential[1]]>>]
    /\ \E ok \in BOOLEAN :
         IF ok
         THEN /\ pc' = AfterInit
              /\ UNCHANGED <<ret, errv, f>>
         ELSE /\ errv' = SdkErr("NewContainerClient")
              /\ Return(errv')
    /\ UNCHANGED <<driver, call, callsDone, credList, credential, blob,
                   disk, blobProps, size, derefs, progbar, cbCount, cbArg, out,
                   inflight>>

\* InitContainerClient, and init() saving the client in c for reuse.
InitContainerClient ==
    /\ pc = "NewContainerClient"
    /\ trace' = Append(trace, "NewContainerClient")
    /\ \E ok \in BOOLEAN :
         IF ok
         THEN /\ handlesMade' = handlesMade + 1
              /\ c' = [c EXCEPT !.containerClient =
                                   <<[id |-> handlesMade + 1, cred |-> credential[1]]>>]
              /\ pc' = AfterInit
              /\ UNCHANGED <<ret, errv, f>>
         ELSE /\ errv' = SdkErr("NewContainerClient")
              /\ Return(errv')
              /\ UNCHANGED <<c, handlesMade>>
    /\ UNCHANGED <<driver, call, callsDone, credList, credential, blob,
                   disk, blobProps, size, derefs, progbar, cbCount, cbArg, out, inflight>>

-----------------------------------------------------------------------------
\* Download.

\* Download looking the blob up before it creates the destination file.
NewBlobClient_lookupFirst ==
    /\ pc = "NewBlobClient"
    /\ trace' = Append(trace, "NewBlobClient")
    /\ blob' = c.containerClient
    /\ pc' = "GetProperties"
    /\ UNCHANGED <<driver, c, handlesMade, call, callsDone, ret, errv, credList,
                   credential, f, disk, blobProps, size, derefs, progbar, cbCount,
                   cbArg, out, inflight>>

\* blob := c.containerClient.NewBlobClient(asset)
NewBlobClient ==
    /\ pc = "NewBlobClient"
    /\ trace' = Append(trace, "NewBlobClient")
    /\ blob' = c.containerClient
    /\ pc' = "os.Create"
    /\ UNCHANGED <<driver, c, handlesMade, call, callsDone, ret, errv, credList,
                   credential, f, disk, blobProps, size, derefs, progbar, cbCount,
                   cbArg, out, inflight>>

\* f, err := os.Create(destination): the file is created, or emptied when it
\* exists; defer f.Close() is registered.
osCreate ==
    /\ pc = "os.Create"
    /\ trace' = Append(trace, "os.Create")
    /\ \E ok \in BOOLEAN :
         IF ok
         THEN /\ disk' = [exists |-> TRUE, len |-> 0, written |-> 0]
              /\ f' = "open"
              /\ pc' = "GetProperties"
              /\ UNCHANGED <<ret, errv>>
         ELSE /\ errv' = OsErr("os.Create")
              /\ Return(errv')
              /\ UNCHANGED disk
    /\ UNCHANGED <<driver, c, handlesMade, call, callsDone, credList, credential,
                   blob, blobProps, size, derefs, progbar, cbCount, cbArg, out,
                   inflight>>

\* blob.GetProperties is called and blocks.
GetPropertiesStart ==
    /\ pc = "GetProperties"
    /\ trace' = Append(trace, "GetProperties")
    /\ inflight' = inflight \cup {"GetProperties"}
    /\ pc' = "inGetProperties"
    /\ UNCHANGED <<driver, c, handlesMade, call, callsDone, ret, errv, credList,
                   credential, blob, f, disk, blobProps, size, derefs, progbar,
                   cbCount, cbArg, out>>

\* GetProperties' error not checked: Download goes on to Truncate.
GetPropertiesReturn_unchecked ==
    /\ pc = "inGetProperties"
    /\ inflight' = inflight \ {"GetProperties"}
    /\ \/ \E n \in 0..MaxSize :
            /\ blobProps' = [ContentLength |-> <<n>>]
            /\ errv' = errv
       \/ /\ blobProps' = ZeroProps
          /\ errv' = SdkErr("GetProperties")
    /\ size' = blobProps'.ContentLength
    /\ pc' = "Truncate"
    /\ UNCHANGED <<ret, f>>
    /\ UNCHANGED <<driver, c, handlesMade, call, callsDone, trace, credList,
                   credential, blob, disk, derefs, progbar, cbCount, cbArg, out>>

\* blob.GetProperties returns; size := blobProps.ContentLength copies the
\* pointer (nil in the zero response of a failed call) before err is looked at.
GetPropertiesReturn ==
    /\ pc = "inGetProperties"
    /\ inflight' = inflight \ {"GetProperties"}
    /\ \/ \E n \in 0..MaxSize :
            /\ blobProps' = [ContentLength |-> <<n>>]
            /\ size' = blobProps'.ContentLength
            /\ pc' = "Truncate"
            /\ UNCHANGED <<ret, errv, f>>
       \/ /\ blobProps' = ZeroProps
          /\ size' = blobProps'.ContentLength
          /\ errv' = SdkErr("GetProperties")
          /\ Return(errv')
    /\ UNCHANGED <<driver, c, handlesMade, call, callsDone, trace, credList,
                   credential, blob, disk, derefs, progbar, cbCount, cbArg, out>>

\* f.Truncate(*size): dereferencing a nil size is a runtime panic.
Truncate ==
    /\ pc = "Truncate"
    /\ derefs' = derefs + 1
    /\ IF size = Nil
       THEN /\ pc' = "panic"
            /\ UNCHANGED <<trace, disk, ret, errv, f>>
       ELSE /\ trace' = Append(trace, "Truncate")
            /\ \E ok \in BOOLEAN :
                 IF ok
                 THEN /\ disk' = [disk EXCEPT !.len = size[1]]
                      /\ pc' = "DownloadBlobToFile"
                      /\ UNCHANGED <<ret, errv, f>>
                 ELSE /\ errv' = OsErr("Truncate")
                      /\ Return(errv')
                      /\ UNCHANGED disk
    /\ UNCHANGED <<driver, c, handlesMade, call, callsDone, credList, credential,
                   blob, blobProps, size, progbar, cbCount, cbArg, out, inflight>>

\* progressbar.DefaultBytesSilent(max, desc)
DefaultBytesSilent(max) == <<[max |-> max, current |-> 0]>>

\* The bar advanced by n (progbar.Add64) instead of set to n.
Set64_add(bar, n) == <<[bar[1] EXCEPT !.current = @ + n]>>

\* progbar.Set64(n)
Set64(bar, n) == <<[bar[1] EXCEPT !.current = n]>>

\* The transfer started without waiting for it (go blob.DownloadBlobToFile).
DownloadBlobToFileStart_async ==
    /\ pc = "DownloadBlobToFile"
    /\ trace' = Append(trace, "DownloadBlobToFile")
    /\ derefs' = derefs + 1
    /\ progbar' = DefaultBytesSilent(size[1])
    /\ inflight' = inflight \cup {"DownloadBlobToFile"}
    /\ pc' = "Println"
    /\ UNCHANGED <<driver, c, handlesMade, call, callsDone, ret, errv, credList,
                   credential, blob, f, disk, blobProps, size, cbCount, cbArg, out>>

\* The bar is made with *size as its maximum, and blob.DownloadBlobToFile is
\* called with the progress callback and blocks.
DownloadBlobToFileStart ==
    /\ pc = "DownloadBlobToFile"
    /\ trace' = Append(trace, "DownloadBlobToFile")
    /\ derefs' = derefs + 1
    /\ progbar' = DefaultBytesSilent(size[1])
    /\ inflight' = inflight \cup {"DownloadBlobToFile"}
    /\ pc' = "inDownloadBlobToFile"
    /\ UNCHANGED <<driver, c, handlesMade, call, callsDone, ret, errv, credList,
                   credential, blob, f, disk, blobProps, size, cbCount, cbArg, out>>

\* The closure made by bytesTransferredFn, run by the SDK while the transfer
\* it was handed to is in progress: the bar is set to the reported count and
\* its text is written to stdout.
bytesTransferredFn ==
    /\ inflight \cap {"DownloadBlobToFile", "UploadFileToBlockBlob"} # {}
    /\ cbCount < MaxCallbacks
    /\ \E bytesTransferred \in 0..progbar[1].max :
         /\ progbar' = Set64(progbar, bytesTransferred)
         /\ cbArg' = <<bytesTransferred>>
    /\ cbCount' = cbCount + 1
    /\ out' = [out EXCEPT !.progress = @ + 1]
    /\ UNCHANGED <<driver, c, handlesMade, pc, call, callsDone, ret, errv, trace,
                   credList, credential, blob, f, disk, blobProps, size, derefs,
                   inflight>>

\* blob.DownloadBlobToFile returns: the blob is in the file, or the call
\* failed after writing some part of it.
DownloadBlobToFileReturn ==
    /\ pc = "inDownloadBlobToFile"
    /\ inflight' = inflight \ {"DownloadBlobToFile"}
    /\ \/ /\ disk' = [disk EXCEPT !.written = disk.len]
          /\ pc' = "Println"
          /\ UNCHANGED <<ret, errv, f>>
       \/ /\ \E k \in 0..disk.len : disk' = [disk EXCEPT !.written = k]
          /\ errv' = SdkErr("DownloadBlobToFile")
          /\ Return(errv')
    /\ UNCHANGED <<driver, c, handlesMade, call, callsDone, trace, credList,
                   credential, blob, blobProps, size, derefs, progbar, cbCount,
                   cbArg, out>>

\* fmt.Println(progbar.String()); return nil
Println ==
    /\ pc = "Println"
    /\ trace' = Append(trace, "Println")
    /\ out' = [out EXCEPT !.final = @ + 1]
    /\ Return(NoErr)
    /\ UNCHANGED <<driver, c, handlesMade, call, callsDone, errv, credList,
                   credential, blob, disk, blobProps, size, derefs, progbar,
                   cbCount, cbArg, inflight>>

-----------------------------------------------------------------------------
\* Upload.

\* Upload without the nil check of file.
NewBlockBlobClient_noNilCheck ==
    /\ pc = "NewBlockBlobClient"
    /\ trace' = Append(trace, "NewBlockBlobClient")
    /\ blob' = c.containerClient
    /\ pc' = "Stat"
    /\ UNCHANGED <<driver, c, handlesMade, call, callsDone, ret, errv, f, credList,
                   credential, disk, blobProps, size, derefs, progbar, cbCount,
                   cbArg, out, inflight>>

\* newBlob := c.containerClient.NewBlockBlobClient(blobPath), then the nil
\* check of file.
NewBlockBlobClient ==
    /\ pc = "NewBlockBlobClient"
    /\ trace' = Append(trace, "NewBlockBlobClient")
    /\ blob' = c.containerClient
    /\ IF call.file = Nil
       THEN Return(FileNilErr)
       ELSE /\ pc' = "Stat"
            /\ UNCHANGED <<ret, f>>
    /\ UNCHANGED <<driver, c, handlesMade, call, callsDone, errv, credList,
                   credential, disk, blobProps, size, derefs, progbar, cbCount,
                   cbArg, out, inflight>>

\* fileStats, err := file.Stat(); Stat on a nil *os.File returns an error.
Stat ==
    /\ pc = "Stat"
    /\ trace' = Append(trace, "Stat")
    /\ \E ok \in (IF call.file = Nil THEN {FALSE} ELSE BOOLEAN) :
         IF ok
         THEN /\ size' = call.file
              /\ pc' = "UploadFileToBlockBlob"
              /\ UNCHANGED <<ret, errv, f>>
         ELSE /\ errv' = OsErr("Stat")
              /\ Return(errv')
              /\ UNCHANGED size
    /\ UNCHANGED <<driver, c, handlesMade, call, callsDone, credList, credential,
                   blob, disk, blobProps, derefs, progbar, cbCount, cbArg, out,
                   inflight>>

\* The bar is made with the file's size as its maximum, and
\* newBlob.UploadFileToBlockBlob is called with the progress callback and blocks.
UploadFileToBlockBlobStart ==
    /\ pc = "UploadFileToBlockBlob"
    /\ trace' = Append(trace, "UploadFileToBlockBlob")
    /\ progbar' = DefaultBytesSilent(size[1])
    /\ inflight' = inflight \cup {"UploadFileToBlockBlob"}
    /\ pc' = "inUploadFileToBlockBlob"
    /\ UNCHANGED <<driver, c, handlesMade, call, callsDone, ret, errv, credList,
                   credential, blob, f, disk, blobProps, size, derefs, cbCount,
                   cbArg, out>>

\* newBlob.UploadFileToBlockBlob returns.
UploadFileToBlockBlobReturn ==
    /\ pc = "inUploadFileToBlockBlob"
    /\ inflight' = inflight \ {"UploadFileToBlockBlob"}
    /\ \/ /\ pc' = "Println"
          /\ UNCHANGED <<ret, errv, f>>
       \/ /\ errv' = SdkErr("UploadFileToBlockBlob")
          /\ Return(errv')
    /\ UNCHANGED <<driver, c, handlesMade, call, callsDone, trace, credList,
                   credential, blob, disk, blobProps, size, derefs, progbar,
                   cbCount, cbArg, out>>

-----------------------------------------------------------------------------
Next ==
    \/ main
    \/ logFatal
    \/ mainExit
    \/ CallDownload
    \/ CallUpload
    \/ init
    \/ NewInteractiveBrowserCredential
    \/ NewDeviceCodeCredential
    \/ NewChainedTokenCredential
    \/ InitContainerClient
    \/ NewBlobClient
    \/ osCreate
    \/ GetPropertiesStart
    \/ GetPropertiesReturn
    \/ Truncate
    \/ DownloadBlobToFileStart
    \/ bytesTransferredFn
    \/ DownloadBlobToFileReturn
    \/ Println
    \/ NewBlockBlobClient
    \/ Stat
    \/ UploadFileToBlockBlobStart
    \/ UploadFileToBlockBlobReturn

Spec == Init /\ [][Next]_vars

-----------------------------------------------------------------------------
\* Vocabulary of the properties.

Has(step) == \E i \in 1..Len(trace) : trace[i] = step

IsPrefix(s, t) == Len(s) <= Len(t) /\ \A i \in 1..Len(s) : s[i] = t[i]

\* The methods called on the blob client.
SdkBlobMethods == {"GetProperties", "DownloadBlobToFile", "UploadFileToBlockBlob"}

\* The steps with an effect on the destination file.
LocalFileEffects == {"os.Create", "Truncate"}

TransferPcs == {"inDownloadBlobToFile", "inUploadFileToBlockBlob"}

\* The call has returned to its caller (and main may have gone on from there).
Returned == pc \in {"returned", "fatal", "exit"}

\* The steps of the authentication flow of a client, in order.
InitOrder ==
    (IF c.CredentialOptions.InteractiveCredential
     THEN <<"NewInteractiveBrowserCredential">> ELSE <<>>)
    \o <<"NewDeviceCodeCredential", "NewChainedTokenCredential", "NewContainerClient">>

\* The steps of a successful Download / Upload after init(), in order.
BodyOrder ==
    IF call.op = "Download"
    THEN <<"NewBlobClient", "os.Create", "GetProperties", "Truncate",
           "DownloadBlobToFile", "Println">>
    ELSE <<"NewBlockBlobClient", "Stat", "UploadFileToBlockBlob", "Println">>

FullOrder == (IF call.cached THEN <<>> ELSE InitOrder) \o BodyOrder

\* The credential chains that have been built: the one init() holds and the
\* one inside the cached container client.
Chains ==
    (IF credential # Nil THEN {credential[1]} ELSE {})
    \cup (IF c.containerClient # Nil THEN {c.containerClient[1].cred} ELSE {})

-----------------------------------------------------------------------------
\* C1 as stated: every error Download or Upload returns is the unmodified
\* error of the SDK call that failed; the program originates no error itself.
C1_OnlySdkErrors ==
    (Returned /\ ret # NoErr) =>
        (ret = errv /\ ret.origin = "sdk" /\ ~ret.wrapped)

\* C1 amended: every error returned is the unmodified error value of the call
\* that failed, an SDK call or one of the file calls os.Create, Truncate and
\* Stat, or it is Upload's own "file cannot be nil" error for a nil file.
C1_ErrorsUnmodified ==
    (Returned /\ ret # NoErr) =>
        \/ /\ ret = errv
           /\ ~ret.wrapped
           /\ \/ ret.origin = "sdk" /\ ret.op \in InitSteps \cup SdkBlobMethods
              \/ ret.origin = "os" /\ ret.op \in {"os.Create", "Truncate", "Stat"}
           /\ trace[Len(trace)] = ret.op
        \/ /\ ret = FileNilErr
           /\ errv = NoErr
           /\ call.op = "Upload"
           /\ call.file = Nil

C1_Witness ==
    /\ pc = "fatal"
    /\ ret = SdkErr("DownloadBlobToFile")
    /\ ret = errv

-----------------------------------------------------------------------------
\* C2: no retry or recovery: in one call each step is executed at most once,
\* the first step that fails ends the call with its error and no later step
\* is executed, and in main an error from Download leads to log.Fatal, after
\* which nothing more happens.
C2_NoRetry ==
    /\ [](/\ \A i, j \in 1..Len(trace) : i # j => trace[i] # trace[j]
          /\ errv # NoErr => /\ Returned
                             /\ ret = errv
                             /\ trace[Len(trace)] = errv.op
          /\ driver = "main" => callsDone <= 1)
    /\ [][/\ (driver = "main" /\ pc = "returned" /\ ret # NoErr) => pc' = "fatal"
          /\ pc = "fatal" => pc' = "fatal"
          /\ (errv # NoErr /\ call' = call) => trace' = trace]_vars

C2_Witness ==
    /\ pc = "fatal"
    /\ errv = SdkErr("GetProperties")
    /\ trace = <<"NewDeviceCodeCredential", "NewChainedTokenCredential",
                 "NewContainerClient", "NewBlobClient", "os.Create", "GetProperties">>

-----------------------------------------------------------------------------
\* C3 as stated: no local-file effect happens before the SDK blob call, and
\* one SDK blob method is called per transfer.
C3_OneBlobCallThenFile ==
    /\ \A i \in 1..Len(trace) :
          trace[i] \in LocalFileEffects =>
              \E j \in 1..(i - 1) : trace[j] \in SdkBlobMethods
    /\ Cardinality({i \in 1..Len(trace) : trace[i] \in SdkBlobMethods}) <= 1

\* C3 amended: a call on a client that is not yet authenticated constructs the
\* credential and then the container client (a call on an authenticated
\* client does neither); Download then creates the destination file, calls
\* GetProperties, truncates the file and calls DownloadBlobToFile, which
\* writes the file: two SDK blob methods, the file created before either;
\* Upload calls the one SDK blob method UploadFileToBlockBlob.
C3_StepOrder ==
    /\ IsPrefix(trace, FullOrder)
    /\ (Returned /\ ret = NoErr) =>
          /\ trace = FullOrder
          /\ call.op = "Download" =>
                (disk.len = size[1] /\ disk.written = disk.len)

C3_Witness ==
    /\ pc = "returned"
    /\ ret = NoErr
    /\ call.op = "Download"
    /\ ~call.cached
    /\ c.CredentialOptions.InteractiveCredential
    /\ disk.written = 2

-----------------------------------------------------------------------------
-----------------------------------------------------------------------------
\* C5: the authentication flow runs in a call if and only if the client held
\* no container client when the call was made; over any sequence of calls the
\* construction succeeds at most once; a non-nil containerClient is never
\* replaced or reset and is the handle every later call uses.
C5_LazyCached ==
    /\ [](/\ call.cached => \A i \in 1..Len(trace) : trace[i] \notin InitSteps
          /\ call.cached => pc \notin InitSteps
          /\ (~call.cached /\ call.op # "none" /\ pc \notin {"init"} \cup InitSteps) =>
                (trace # <<>> /\ trace[1] = InitOrder[1])
          /\ handlesMade <= 1
          /\ blob # Nil => blob = c.containerClient)
    /\ [][c.containerClient # Nil => c' = c]_vars

C5_Witness ==
    /\ callsDone = 2
    /\ call.cached
    /\ blob # Nil
    /\ blob = c.containerClient
    /\ pc = "returned"

-----------------------------------------------------------------------------
\* C6: at most one SDK call is in progress at any moment, the thread waits in
\* the call that is in progress, and the progress callback runs only between
\* the start and the return of the transfer call.
C6_Synchronous ==
    /\ [](/\ Cardinality(inflight) <= 1
          /\ \A call_ \in inflight : pc = "in" \o call_
          /\ cbCount > 0 => (Has("DownloadBlobToFile") \/ Has("UploadFileToBlockBlob")))
    /\ [][cbCount' > cbCount => (pc \in TransferPcs /\ pc' = pc)]_vars

C6_Witness ==
    /\ pc = "inDownloadBlobToFile"
    /\ cbCount = 2
    /\ inflight = {"DownloadBlobToFile"}

-----------------------------------------------------------------------------
\* C7: the bar's maximum is the blob's ContentLength (Download) or the local
\* file's size (Upload); after a callback with value n the bar's current
\* value is n; the final progress line is printed exactly once after the
\* transfer returned without error and not at all when the call returns an
\* error.
C7_ProgressAdapter ==
    /\ progbar # Nil =>
          progbar[1].max = IF call.op = "Download"
                           THEN blobProps.ContentLength[1]
                           ELSE call.file[1]
    /\ cbArg # Nil => progbar[1].current = cbArg[1]
    /\ out.final <= 1
    /\ out.final = 1 => (Returned /\ ret = NoErr /\ inflight = {})
    /\ Returned => out.final = (IF ret = NoErr THEN 1 ELSE 0)

C7_Witness ==
    /\ pc = "returned"
    /\ ret = NoErr
    /\ out.final = 1
    /\ cbCount = 2
    /\ cbArg = <<1>>
    /\ progbar[1].max = 2

-----------------------------------------------------------------------------
\* C8: when credential or container-client construction fails inside init,
\* containerClient stays nil and the client is otherwise unchanged, the call
\* returns that error having touched no blob and no local file, and the next
\* call on the client runs the whole initialization again.
C8_FailedInit ==
    /\ [](/\ (errv.op \in InitSteps) =>
                /\ c.containerClient = Nil
                /\ ret = errv
                /\ blob = Nil
                /\ f = "none"
                /\ \A i \in 1..Len(trace) : trace[i] \in InitSteps
          /\ call.afterInitFailure =>
                /\ ~call.cached
                /\ pc \in {"init"} \cup InitSteps
                      \/ (trace # <<>> /\ trace[1] = InitOrder[1])
          /\ c.containerClient # Nil => credential # Nil \/ call.cached)
    /\ [][/\ (errv'.op \in InitSteps /\ call' = call) => (c' = c /\ disk' = disk)
          /\ [c' EXCEPT !.containerClient = Nil] = [c EXCEPT !.containerClient = Nil]]_vars

C8_Witness ==
    /\ call.afterInitFailure
    /\ c.containerClient # Nil
    /\ pc = "returned"
    /\ ret = NoErr

-----------------------------------------------------------------------------
\* C9: Download creates (or empties) the destination file before the blob is
\* looked up; when GetProperties fails Download returns that error without
\* dereferencing ContentLength, without Truncate and without
\* DownloadBlobToFile, the empty file stays, and the file handle is closed on
\* every return after the creation.
C9_GetPropertiesError ==
    /\ Has("GetProperties") =>
          \E i, j \in 1..Len(trace) :
              i < j /\ trace[i] = "os.Create" /\ trace[j] = "GetProperties"
    /\ pc \in {"GetProperties", "inGetProperties"} =>
          disk = [exists |-> TRUE, len |-> 0, written |-> 0]
    /\ errv = SdkErr("GetProperties") =>
          /\ Returned
          /\ ret = errv
          /\ size = Nil
          /\ derefs = 0
          /\ ~Has("Truncate")
          /\ ~Has("DownloadBlobToFile")
          /\ disk = [exists |-> TRUE, len |-> 0, written |-> 0]
    /\ Returned => f # "open"
    /\ (Has("os.Create") /\ errv # OsErr("os.Create")) =>
          f = IF Returned THEN "closed" ELSE "open"

C9_Witness ==
    /\ pc = "returned"
    /\ errv = SdkErr("GetProperties")
    /\ f = "closed"
    /\ disk.exists
    /\ callsDone = 1

-----------------------------------------------------------------------------
\* C10: Upload with a nil file always returns an error and never calls
\* file.Stat or UploadFileToBlockBlob; the nil check comes after init, so on a
\* client not yet authenticated the authentication flow runs first and, when
\* it succeeds, the container client is cached before "file cannot be nil" is
\* returned.
C10_NilFile ==
    (call.op = "Upload" /\ call.file = Nil) =>
        /\ ~Has("Stat")
        /\ ~Has("UploadFileToBlockBlob")
        /\ inflight = {}
        /\ Returned => ret # NoErr
        /\ ret = FileNilErr =>
              /\ c.containerClient # Nil
              /\ blob = c.containerClient
              /\ ~call.cached => Has("NewContainerClient")
        /\ (Returned /\ c.containerClient # Nil) => ret = FileNilErr

C10_Witness ==
    /\ ret = FileNilErr
    /\ ~call.cached
    /\ callsDone = 1
    /\ c.containerClient # Nil
    /\ handlesMade = 1

=============================================================================
